---- MODULE Spec2Model ----
(***************************************************************************)
(* Model of tempjwk.py: a script that registers a temporary JWK            *)
(* provisioner on a step-ca certificate authority, waits for a keypress or *)
(* a timeout, and removes the provisioner again.                           *)
(*                                                                         *)
(* Time is counted in ticks of a quarter second: the 0.5 s select timeout  *)
(* of the wait loop is PollTicks = 2 ticks.  Provisioner names and the     *)
(* text printed by "step-cli ca provisioner list" are sequences of         *)
(* one-character strings, so that Python's substring test ("in") is        *)
(* computed, not assumed.                                                  *)
(***************************************************************************)
EXTENDS Integers, Sequences, FiniteSets, TLC

\* ------------------------------------------------------------- bounds
\* Largest number of provisioners registered on the CA when the run starts.
MaxRegistered == 2
\* Largest --timeout value (seconds) tried.
MaxTimeout == 2
\* Largest overshoot, in ticks, of a select call that returns late.
MaxJitter == 1
\* Largest wall-clock reading, in ticks, at the start of the run.
MaxEpoch == 1
\* Number of temporary file names the file system can hand out.
MaxTempNames == 4

\* ---------------------------------------------------------- constants
\* select.select([sys.stdin], [], [], 0.5): 0.5 s = 2 quarter-second ticks.
PollTicks == 2
TicksPerSecond == 2 * PollTicks

\* -------------------------------------------------------------- inputs
\* Values of --provisioner-name, and the names other provisioners may have.
Names == { <<"t">>, <<"t", "x">>, <<"x">> }
\* Values of --timeout, as durations in seconds.  argparse (type=int) also
\* accepts negative numbers, with which the loop ends at its first check;
\* they are not durations and are left out.
Timeouts == 0..MaxTimeout
\* Directories: the one holding the script, and another one.
Dirs == { "scriptdir", "otherdir" }
\* Names tempfile.NamedTemporaryFile can pick.
TempNames == 1..MaxTempNames
\* Files decrypt_file can be asked to decrypt.
InputFiles == { "key.priv.gpg", "other.gpg" }

VARIABLES
    pc,               \* position of main
    ca,               \* names of the provisioners registered on the CA
    provisioner_name, \* args.provisioner_name
    timeout,          \* args.timeout
    cwd,              \* the working directory of the process
    pubKeyDirs,       \* directories in which args.public_key_path names a file
    provisioner_exists, \* main's local of that name
    now,              \* time.time(), in ticks
    start_time,       \* main's local of that name
    stdinReady,       \* input is buffered on sys.stdin
    inputAt,          \* when the operator's input arrived, or -1
    waitOutcome,      \* which break left the wait loop
    waitEnd,          \* time.time() when the wait loop was left
    tmpFiles,         \* temporary files on disk
    temp_file,        \* add_provisioner's temp_file.name, or 0
    calls,            \* external tools run so far, in order
    output,           \* lines printed so far
    failedStep,       \* the step that failed, or "none"
    exitCode,         \* exit status of the process, or -1 while it runs
    dpc,              \* position of decrypt_file
    dInput,           \* decrypt_file's input_file
    dTemp,            \* decrypt_file's temp_file.name, or 0
    dResult,          \* what decrypt_file returned or raised
    ca0,              \* history: the CA when the run started
    tmpFiles0         \* history: the disk when the run started

vars == << pc, ca, provisioner_name, timeout, cwd, pubKeyDirs,
           provisioner_exists, now, start_time, stdinReady, inputAt,
           waitOutcome, waitEnd, tmpFiles, temp_file, calls, output, failedStep,
           exitCode, dpc, dInput, dTemp, dResult, ca0, tmpFiles0 >>

mainVars == << pc, ca, provisioner_name, timeout, cwd, pubKeyDirs,
               provisioner_exists, now, start_time, stdinReady, inputAt,
               waitOutcome, waitEnd, temp_file, calls, output, failedStep,
               exitCode >>

decryptVars == << dpc, dInput, dTemp, dResult >>

historyVars == << ca0, tmpFiles0 >>

\* ------------------------------------------------------ pure functions

\* Python's  sub in text  on strings.
Contains(sub, text) ==
    \E i \in 0..(Len(text) - Len(sub)) :
        SubSeq(text, i + 1, i + Len(sub)) = sub

\* stdout of "step-cli ca provisioner list": one registered name per line.
RECURSIVE ListingText(_)
ListingText(registered) ==
    IF registered = {} THEN << >>
    ELSE LET n == CHOOSE x \in registered :
                    \A y \in registered : Len(x) <= Len(y)
         IN  n \o << "\n" >> \o ListingText(registered \ {n})

\* Mutant: the listing is not looked at; the provisioner is always deleted.
check_provisioner_always(name, stdout) == TRUE

\* Mutant: the name is looked for at the start of the listing only.
check_provisioner_prefix(name, stdout) ==
    Len(stdout) >= Len(name) /\ SubSeq(stdout, 1, Len(name)) = name

\* check_provisioner, given the stdout of the list command.
check_provisioner(name, stdout) ==
    IF Contains(name, stdout) THEN TRUE ELSE FALSE

\* The CA after "step-cli ca provisioner remove <name>" exited 0.
RemoveEffect(registered, name) == registered \ {name}

\* The CA after "step-cli ca provisioner add ... <name>" exited 0.
AddEffect(registered, name) == registered \cup {name}

\* ---------------------------------------------------------- exceptions

\* The exception a failing step raises into main.  check_provisioner runs
\* the list command with check=True and lets CalledProcessError through;
\* delete_provisioner and add_provisioner raise ValueError instead.
StepRaises(step) ==
    CASE step = "CHECK_EXISTING"  -> "CalledProcessError"
      [] step = "DELETE_EXISTING" -> "ValueError"
      [] step = "DECRYPT"         -> "ValueError"
      [] step = "ADD"             -> "ValueError"
      [] step = "DELETE_FINAL"    -> "ValueError"

\* The text of that exception.
ExceptionText(step) ==
    CASE step = "CHECK_EXISTING"  -> "Command returned non-zero exit status"
      [] step = "DELETE_EXISTING" -> "Error: Failed to delete provisioner: {e}"
      [] step = "DECRYPT"         -> "Failed to decrypt private key"
      [] step = "ADD"             -> "Error: Failed to add provisioner: {e}"
      [] step = "DELETE_FINAL"    -> "Error: Failed to delete provisioner: {e}"

\* What the except clause of main around the step prints.
HandlerMessage(step) ==
    CASE step = "CHECK_EXISTING"  ->
            "Error: Failed to check if provisioner exists: {e}"
      [] step = "DELETE_EXISTING" ->
            "Error: Failed to delete existing provisioner {name}: {e}"
      [] step = "DECRYPT"         ->
            "Error: Failed to add provisioner {name}: {e}"
      [] step = "ADD"             ->
            "Error: Failed to add provisioner {name}: {e}"
      [] step = "DELETE_FINAL"    ->
            "Error: Failed to delete provisioner {name}: {e}"

\* Every try block of main has the one clause
\* except subprocess.CalledProcessError.
MainCatches(raised) == raised = "CalledProcessError"

\* What the run emits when the step fails: the message of main's except
\* clause when it catches the exception, else the interpreter's traceback,
\* whose last line is the exception's type and text.
Diagnostic(step) ==
    IF step = "START"
    THEN [kind |-> "print", type |-> "",
          text |-> "Error: public key file does not exist"]
    ELSE IF MainCatches(StepRaises(step))
         THEN [kind |-> "print", type |-> "", text |-> HandlerMessage(step)]
         ELSE [kind |-> "traceback", type |-> StepRaises(step),
               text |-> ExceptionText(step)]

\* Mutant: the failure paths exit with status 0.
FailureExit_zero(step) == 0

\* exit(1) in the except clauses and after the missing public key; an
\* uncaught exception ends the interpreter with status 1 as well.
FailureExit(step) == 1

\* print(text)
Line(text) == [kind |-> "print", type |-> "", text |-> text]

\* ------------------------------------------------------- external tools

\* subprocess.run of an external tool: its name, whether it exited 0, and
\* the directory against which a relative key file argument resolves.
Call(tool, ok, dir) == [tool |-> tool, ok |-> ok, dir |-> dir]

\* "step-cli ca provisioner remove" can exit 0 only for a registered name
\* (the CA answers "provisioner not found" otherwise).
RemoveCanSucceed(registered, name) == name \in registered

\* "step-cli ca provisioner add" can exit 0 only when the name is free and
\* the public key file it is handed exists.
AddCanSucceed(registered, name, dir, keyDirs) ==
    name \notin registered /\ dir \in keyDirs

\* tempfile.NamedTemporaryFile(): a file under a name not in use.
FreshTempNames(files) == TempNames \ files

\* Mutant: the temporary file is created with delete=False.
TempFileExit_keep(files, f) == files

\* Leaving "with tempfile.NamedTemporaryFile() as temp_file": the file is
\* closed, and closing deletes it (delete defaults to True).
TempFileExit(files, f) == files \ {f}

\* script_dir = pathlib.Path(__file__).parent, the base of
\* public_key_path and private_key_path.
ScriptDir == "scriptdir"

\* add_provisioner is handed args.private_key_path and
\* args.public_key_path as given on the command line; gpg and step-cli
\* resolve a relative path against the working directory.
KeyArgDir(workdir) == workdir

\* Mutant: the existence check is left out.
PublicKeyExists_unchecked(keyDirs) == TRUE

\* public_key_path = script_dir / args.public_key_path;
\* public_key_path.exists()
PublicKeyExists(keyDirs) == "scriptdir" \in keyDirs

\* Mutant: gpg's exit status is not looked at.
GpgFailed_ignored(ok) == FALSE

\* if gpg_process.returncode != 0: raise ValueError
GpgFailed(ok) == ~ok

\* Mutant: the loop sleeps for the whole interval and polls afterwards.
SelectReturnsAt_sleep(began, arrival, late) == began + PollTicks + late

\* select.select([sys.stdin,], [], [], 0.5) entered at began returns when
\* input arrives within the 0.5 s; the process is resumed late ticks after.
SelectReturnsAt(began, arrival, late) == arrival + late

\* Mutant: the loop continues where it should break.
AfterWait_continue(outcome) == "WAIT_CHECK"

\* Mutant: a keypress ends the run without the final delete.
AfterWait_cancelSkips(outcome) ==
    IF outcome = "cancelled" THEN "DONE" ELSE "DELETE_FINAL"

\* Both breaks of the wait loop fall through to the final
\* delete_provisioner.
AfterWait(outcome) == "DELETE_FINAL"

\* Mutant: the timeout is compared without converting seconds to ticks.
TimedOut_unscaled(t, start, secs) == t - start > secs

\* time.time() - start_time > args.timeout, with the timeout in seconds.
TimedOut(t, start, secs) == t - start > secs * TicksPerSecond

\* The run ends in failure at the step.
Fail(step, printed) ==
    /\ pc' = "FAILED"
    /\ failedStep' = step
    /\ output' = Append(printed, Diagnostic(step))
    /\ exitCode' = FailureExit(step)

\* ------------------------------------------------------------ main

MainInit ==
    /\ pc = "START"
    /\ ca \in { S \in SUBSET Names : Cardinality(S) <= MaxRegistered }
    /\ provisioner_name \in Names
    /\ timeout \in Timeouts
    /\ cwd \in Dirs
    /\ pubKeyDirs \in SUBSET Dirs
    /\ provisioner_exists = FALSE
    /\ now \in 0..MaxEpoch
    /\ start_time = -1
    /\ stdinReady = FALSE
    /\ inputAt = -1
    /\ waitOutcome = "none"
    /\ waitEnd = -1
    /\ temp_file = 0
    /\ calls = << >>
    /\ output = << >>
    /\ failedStep = "none"
    /\ exitCode = -1

DecryptIdle ==
    /\ dpc = "idle"
    /\ dInput = ""
    /\ dTemp = 0
    /\ dResult = [kind |-> "none", path |-> 0]

Init ==
    /\ MainInit
    /\ tmpFiles = {}
    /\ DecryptIdle
    /\ ca0 = ca
    /\ tmpFiles0 = tmpFiles

\* public_key_path = script_dir / args.public_key_path; exists() or exit(1).
Start ==
    /\ pc = "START"
    /\ IF PublicKeyExists(pubKeyDirs)
       THEN /\ pc' = "CHECK_EXISTING"
            /\ UNCHANGED << output, failedStep, exitCode >>
       ELSE Fail("START", output)
    /\ UNCHANGED << ca, provisioner_name, timeout, cwd, pubKeyDirs,
                    provisioner_exists, now, start_time, stdinReady, inputAt,
                    waitOutcome, waitEnd, tmpFiles, temp_file, calls >>
    /\ UNCHANGED << decryptVars, historyVars >>

\* provisioner_exists = check_provisioner(args.provisioner_name)
CheckExisting ==
    /\ pc = "CHECK_EXISTING"
    /\ \E ok \in BOOLEAN :
        /\ calls' = Append(calls, Call("list", ok, ""))
        /\ IF ok
           THEN /\ provisioner_exists' =
                       check_provisioner(provisioner_name, ListingText(ca))
                /\ pc' = IF provisioner_exists'
                         THEN "DELETE_EXISTING" ELSE "ADD"
                /\ UNCHANGED << output, failedStep, exitCode >>
           ELSE /\ Fail("CHECK_EXISTING", output)
                /\ UNCHANGED provisioner_exists
    /\ UNCHANGED << ca, provisioner_name, timeout, cwd, pubKeyDirs, now,
                    start_time, stdinReady, inputAt, waitOutcome, waitEnd,
                    tmpFiles, temp_file >>
    /\ UNCHANGED << decryptVars, historyVars >>

\* if provisioner_exists: delete_provisioner(...)
DeleteExisting ==
    /\ pc = "DELETE_EXISTING"
    /\ \E ok \in BOOLEAN :
        /\ ok => RemoveCanSucceed(ca, provisioner_name)
        /\ calls' = Append(calls, Call("remove", ok, ""))
        /\ LET printed == Append(output,
                 Line("Provisioner {name} already exists. Deleting existing provisioner..."))
           IN IF ok
              THEN /\ ca' = RemoveEffect(ca, provisioner_name)
                   /\ output' = Append(printed,
                                  Line("Existing provisioner {name} deleted."))
                   /\ pc' = "ADD"
                   /\ UNCHANGED << failedStep, exitCode >>
              ELSE /\ Fail("DELETE_EXISTING", printed)
                   /\ UNCHANGED ca
    /\ UNCHANGED << provisioner_name, timeout, cwd, pubKeyDirs,
                    provisioner_exists, now, start_time, stdinReady, inputAt,
                    waitOutcome, waitEnd, tmpFiles, temp_file >>
    /\ UNCHANGED << decryptVars, historyVars >>

\* add_provisioner: with tempfile.NamedTemporaryFile() as temp_file
AddCreateTemp ==
    /\ pc = "ADD"
    /\ \E f \in FreshTempNames(tmpFiles) :
        /\ temp_file' = f
        /\ tmpFiles' = tmpFiles \cup {f}
    /\ pc' = "ADD_GPG"
    /\ UNCHANGED << ca, provisioner_name, timeout, cwd, pubKeyDirs,
                    provisioner_exists, now, start_time, stdinReady, inputAt,
                    waitOutcome, waitEnd, calls, output, failedStep,
                    exitCode >>
    /\ UNCHANGED << decryptVars, historyVars >>

\* add_provisioner: gpg --decrypt args.private_key_path into temp_file
AddDecrypt ==
    /\ pc = "ADD_GPG"
    /\ \E ok \in BOOLEAN :
        /\ calls' = Append(calls, Call("gpg", ok, KeyArgDir(cwd)))
        /\ IF ~GpgFailed(ok)
           THEN /\ pc' = "ADD_STEP"
                /\ UNCHANGED << tmpFiles, output, failedStep, exitCode >>
           ELSE /\ tmpFiles' = TempFileExit(tmpFiles, temp_file)
                /\ Fail("DECRYPT", output)
    /\ UNCHANGED << ca, provisioner_name, timeout, cwd, pubKeyDirs,
                    provisioner_exists, now, start_time, stdinReady, inputAt,
                    waitOutcome, waitEnd, temp_file >>
    /\ UNCHANGED << decryptVars, historyVars >>

\* add_provisioner: step-cli ca provisioner add, then the end of the with
AddStep ==
    /\ pc = "ADD_STEP"
    /\ \E ok \in BOOLEAN :
        /\ ok => AddCanSucceed(ca, provisioner_name, KeyArgDir(cwd),
                               pubKeyDirs)
        /\ calls' = Append(calls, Call("add", ok, KeyArgDir(cwd)))
        /\ tmpFiles' = TempFileExit(tmpFiles, temp_file)
        /\ IF ok
           THEN /\ ca' = AddEffect(ca, provisioner_name)
                /\ pc' = "WAIT_BEGIN"
                /\ UNCHANGED << output, failedStep, exitCode >>
           ELSE /\ Fail("ADD", output)
                /\ UNCHANGED ca
    /\ UNCHANGED << provisioner_name, timeout, cwd, pubKeyDirs,
                    provisioner_exists, now, start_time, stdinReady, inputAt,
                    waitOutcome, waitEnd, temp_file >>
    /\ UNCHANGED << decryptVars, historyVars >>

\* The operator types something before the wait loop is entered: the input
\* stays buffered on sys.stdin.
Keypress ==
    /\ pc \in { "START", "CHECK_EXISTING", "DELETE_EXISTING", "ADD",
                "ADD_GPG", "ADD_STEP", "WAIT_BEGIN" }
    /\ ~stdinReady
    /\ stdinReady' = TRUE
    /\ inputAt' = now
    /\ UNCHANGED << pc, ca, provisioner_name, timeout, cwd, pubKeyDirs,
                    provisioner_exists, now, start_time, waitOutcome, waitEnd,
                    tmpFiles, temp_file, calls, output, failedStep,
                    exitCode >>
    /\ UNCHANGED << decryptVars, historyVars >>

\* The two prints after add_provisioner, and start_time = time.time()
WaitBegin ==
    /\ pc = "WAIT_BEGIN"
    /\ output' = output \o
                 << Line("Provisioner {name} added."),
                    Line("Press any key to delete it (up to {timeout} seconds)") >>
    /\ start_time' = now
    /\ pc' = "WAIT_CHECK"
    /\ UNCHANGED << ca, provisioner_name, timeout, cwd, pubKeyDirs,
                    provisioner_exists, now, stdinReady, inputAt, waitOutcome,
                    waitEnd, tmpFiles, temp_file, calls, failedStep,
                    exitCode >>
    /\ UNCHANGED << decryptVars, historyVars >>

\* if time.time() - start_time > args.timeout: break
WaitCheck ==
    /\ pc = "WAIT_CHECK"
    /\ IF TimedOut(now, start_time, timeout)
       THEN /\ waitOutcome' = "timedOut"
            /\ waitEnd' = now
            /\ pc' = AfterWait("timedOut")
       ELSE /\ pc' = "WAIT_SELECT"
            /\ UNCHANGED << waitOutcome, waitEnd >>
    /\ UNCHANGED << ca, provisioner_name, timeout, cwd, pubKeyDirs,
                    provisioner_exists, now, start_time, stdinReady, inputAt,
                    tmpFiles, temp_file, calls, output, failedStep,
                    exitCode >>
    /\ UNCHANGED << decryptVars, historyVars >>

\* if select.select([sys.stdin,], [], [], 0.5)[0]: break
\* select returns at once when input is buffered, as soon as input arrives
\* within the 0.5 s, and otherwise after the 0.5 s; the process may be
\* resumed up to MaxJitter ticks late, and input that arrives while it is
\* late stays buffered for the next select.
WaitSelect ==
    /\ pc = "WAIT_SELECT"
    /\ IF stdinReady
       THEN /\ waitOutcome' = "cancelled"
            /\ waitEnd' = now
            /\ pc' = AfterWait("cancelled")
            /\ UNCHANGED << now, stdinReady, inputAt >>
       ELSE \/ \E j \in 0..MaxJitter :
                 /\ now' = now + PollTicks + j
                 /\ pc' = "WAIT_CHECK"
                 /\ UNCHANGED << stdinReady, inputAt, waitOutcome, waitEnd >>
            \/ \E j \in 1..MaxJitter, k \in 1..MaxJitter :
                 /\ k <= j
                 /\ now' = now + PollTicks + j
                 /\ stdinReady' = TRUE
                 /\ inputAt' = now + PollTicks + k
                 /\ pc' = "WAIT_CHECK"
                 /\ UNCHANGED << waitOutcome, waitEnd >>
            \/ \E d \in 0..PollTicks, j \in 0..MaxJitter :
                 /\ stdinReady' = TRUE
                 /\ inputAt' = now + d
                 /\ now' = SelectReturnsAt(now, now + d, j)
                 /\ waitOutcome' = "cancelled"
                 /\ waitEnd' = now'
                 /\ pc' = AfterWait("cancelled")
    /\ UNCHANGED << ca, provisioner_name, timeout, cwd, pubKeyDirs,
                    provisioner_exists, start_time, tmpFiles, temp_file,
                    calls, output, failedStep, exitCode >>
    /\ UNCHANGED << decryptVars, historyVars >>

\* delete_provisioner(...) after the loop, and the last print
DeleteFinal ==
    /\ pc = "DELETE_FINAL"
    /\ \E ok \in BOOLEAN :
        /\ ok => RemoveCanSucceed(ca, provisioner_name)
        /\ calls' = Append(calls, Call("remove", ok, ""))
        /\ IF ok
           THEN /\ ca' = RemoveEffect(ca, provisioner_name)
                /\ output' = Append(output, Line("Provisioner {name} deleted."))
                /\ pc' = "DONE"
                /\ exitCode' = 0
                /\ UNCHANGED failedStep
           ELSE /\ Fail("DELETE_FINAL", output)
                /\ UNCHANGED ca
    /\ UNCHANGED << provisioner_name, timeout, cwd, pubKeyDirs,
                    provisioner_exists, now, start_time, stdinReady, inputAt,
                    waitOutcome, waitEnd, tmpFiles, temp_file >>
    /\ UNCHANGED << decryptVars, historyVars >>

Next ==
    \/ Start
    \/ CheckExisting
    \/ DeleteExisting
    \/ AddCreateTemp
    \/ AddDecrypt
    \/ AddStep
    \/ Keypress
    \/ WaitBegin
    \/ WaitCheck
    \/ WaitSelect
    \/ DeleteFinal

Spec == Init /\ [][Next]_vars

\* The steps of the script itself: it is one sequential process, which
\* takes its next step whenever it has one (every external call returns,
\* every select returns after its timeout at the latest).
MainStep ==
    \/ Start
    \/ CheckExisting
    \/ DeleteExisting
    \/ AddCreateTemp
    \/ AddDecrypt
    \/ AddStep
    \/ WaitBegin
    \/ WaitCheck
    \/ WaitSelect
    \/ DeleteFinal

FairSpec == Spec /\ WF_vars(MainStep)

\* ------------------------------------------------------- decrypt_file
\* decrypt_file is called by nothing in the script; it is modelled on its
\* own, applied to any input file on a disk that may hold other temporary
\* files.

\* Mutant: the failure path does not unlink.
Unlink_skip(files, f) == files

\* pathlib.Path(temp_file.name).unlink()
Unlink(files, f) == files \ {f}

\* Leaving "with tempfile.NamedTemporaryFile(delete=False) as temp_file":
\* the file is closed and stays on disk.
KeptTempFileExit(files, f) == files

\* the process is done with main; only decrypt_file runs
MainIdle ==
    /\ pc = "DONE"
    /\ ca = {}
    /\ provisioner_name = << "t" >>
    /\ timeout = 0
    /\ cwd = "scriptdir"
    /\ pubKeyDirs = {}
    /\ provisioner_exists = FALSE
    /\ now = 0
    /\ start_time = -1
    /\ stdinReady = FALSE
    /\ inputAt = -1
    /\ waitOutcome = "none"
    /\ waitEnd = -1
    /\ temp_file = 0
    /\ calls = << >>
    /\ output = << >>
    /\ failedStep = "none"
    /\ exitCode = -1

DecryptInit ==
    /\ MainIdle
    /\ tmpFiles \in SUBSET TempNames
    /\ dpc = "call"
    /\ dInput \in InputFiles
    /\ dTemp = 0
    /\ dResult = [kind |-> "none", path |-> 0]
    /\ ca0 = ca
    /\ tmpFiles0 = tmpFiles

\* with tempfile.NamedTemporaryFile(delete=False) as temp_file
DecryptCreateTemp ==
    /\ dpc = "call"
    /\ \E f \in FreshTempNames(tmpFiles) :
        /\ dTemp' = f
        /\ tmpFiles' = tmpFiles \cup {f}
    /\ dpc' = "gpg"
    /\ UNCHANGED << dInput, dResult >>
    /\ UNCHANGED << mainVars, historyVars >>

\* gpg --decrypt with check=True; unlink and raise, or return the path
DecryptRun ==
    /\ dpc = "gpg"
    /\ \E ok \in BOOLEAN :
        IF ok
        THEN /\ tmpFiles' = KeptTempFileExit(tmpFiles, dTemp)
             /\ dResult' = [kind |-> "return", path |-> dTemp]
        ELSE /\ tmpFiles' = KeptTempFileExit(Unlink(tmpFiles, dTemp), dTemp)
             /\ dResult' = [kind |-> "ValueError", path |-> 0]
    /\ dpc' = "done"
    /\ UNCHANGED << dInput, dTemp >>
    /\ UNCHANGED << mainVars, historyVars >>

DecryptNext == DecryptCreateTemp \/ DecryptRun

DecryptSpec == DecryptInit /\ [][DecryptNext]_vars

\* ============================================================== claims

\* Helpers of the claims' formulas.
CallIssued(tool) ==
    /\ Len(calls') = Len(calls) + 1
    /\ calls'[Len(calls')].tool = tool

Called(tool) == \E i \in 1..Len(calls) : calls[i].tool = tool

CalledOk(tool) == \E i \in 1..Len(calls) : calls[i].tool = tool /\ calls[i].ok

LastCall == calls[Len(calls)]

InWait == pc \in { "WAIT_CHECK", "WAIT_SELECT" }

AddProvisionerLeft ==
    temp_file # 0 /\ pc \notin { "ADD_GPG", "ADD_STEP" }

\* ---- C1
\* C1: when main ends with exit code 0, check_provisioner, run against the
\* CA's listing as it then is, answers False for the provisioner name.
C1_SuccessThenCheckFalse ==
    exitCode = 0 =>
        ~check_provisioner(provisioner_name, ListingText(ca))

\* ---- C2
\* C2: the add call for the provisioner name is never issued while a
\* provisioner of that name is registered; when it was registered at the
\* start, a successful remove call comes before the add call.
C2_AddNeverWhileRegistered ==
    [][ CallIssued("add") =>
            /\ provisioner_name \notin ca
            /\ provisioner_name \in ca0 => CalledOk("remove") ]_vars

C2_Witness ==
    /\ provisioner_name \in ca0
    /\ Called("add")
    /\ calls[2] = Call("remove", TRUE, "")

\* ---- C3
\* C3: once add_provisioner has returned or raised, the temporary file it
\* created for the decrypted private key is not on disk, whatever the
\* outcome of gpg and of the CA's add.
C3_PlaintextGoneAfterAdd ==
    AddProvisionerLeft => temp_file \notin tmpFiles /\ tmpFiles = {}

C3_Witness ==
    /\ AddProvisionerLeft
    /\ failedStep = "ADD"
    /\ CalledOk("gpg")

\* ---- C4
\* C4 as stated: after decrypt_file has returned or raised, the temporary
\* file it created is not on disk.
C4_NoTempFileAfterDecrypt ==
    dpc = "done" => dTemp \notin tmpFiles

\* C4 as amended: after decrypt_file raised, the disk holds what it held
\* before the call; after it returned, the disk holds in addition exactly
\* the file whose path was returned.
C4_TempFileOnlyWhenReturned ==
    dpc = "done" =>
        /\ dResult.kind = "ValueError" => tmpFiles = tmpFiles0
        /\ dResult.kind = "return" =>
              /\ dResult.path \notin tmpFiles0
              /\ tmpFiles = tmpFiles0 \cup { dResult.path }

C4_Witness ==
    /\ dpc = "done"
    /\ dResult.kind = "ValueError"
    /\ tmpFiles0 # {}

\* ---- C5
\* C5: the wait loop is left only towards the final delete, on a keypress
\* and on the timeout alike, and the step after it issues the CA's remove
\* call.
C5_WaitEndsInFinalDelete ==
    [][ /\ (InWait /\ ~InWait') =>
              /\ pc' = "DELETE_FINAL"
              /\ waitOutcome' \in { "cancelled", "timedOut" }
        /\ (pc = "DELETE_FINAL" /\ pc' # pc) => CallIssued("remove") ]_vars

C5_Witness ==
    /\ waitOutcome = "cancelled"
    /\ pc \in { "DONE", "FAILED" }
    /\ LastCall.tool = "remove"

\* ---- C6
\* C6: a failed step ends the run at once with a non-zero exit code: the
\* failed call is the last call, nothing can follow, and exit code 0 comes
\* only after add, wait and final delete all succeeded.
C6_FailureIsFatal ==
    /\ (failedStep # "none") <=> (pc = "FAILED")
    /\ pc = "FAILED" => exitCode > 0 /\ ~ENABLED Next
    /\ \A i \in 1..Len(calls) :
          ~calls[i].ok => i = Len(calls) /\ pc = "FAILED"
    /\ (pc # "START" /\ ~PublicKeyExists(pubKeyDirs)) => pc = "FAILED"
    /\ exitCode = 0 =>
          /\ pc = "DONE"
          /\ CalledOk("add")
          /\ waitOutcome # "none"
          /\ LastCall = Call("remove", TRUE, "")
          /\ \A i \in 1..Len(calls) : calls[i].ok

C6_Witness ==
    /\ failedStep = "DELETE_FINAL"
    /\ exitCode = 1
    /\ ~LastCall.ok

\* ---- C7
\* C7: when the final delete fails, the run exits non-zero with the
\* provisioner still registered, and what it emits differs from what any
\* other failing step emits.
C7_FinalRevokeDiagnosticDistinct ==
    failedStep = "DELETE_FINAL" =>
        /\ exitCode > 0
        /\ provisioner_name \in ca
        /\ \A s \in { "START", "CHECK_EXISTING", "DELETE_EXISTING",
                      "DECRYPT", "ADD" } :
              output[Len(output)] # Diagnostic(s)

\* ---- C8
\* C8: when the public key file is missing, the run exits with code 1 and
\* has run no external tool.
C8_MissingPublicKey ==
    (pc # "START" /\ "scriptdir" \notin pubKeyDirs) =>
        /\ pc = "FAILED"
        /\ exitCode = 1
        /\ calls = << >>
        /\ tmpFiles = {}
        /\ ~ENABLED Next

C8_Witness ==
    /\ failedStep = "START"
    /\ "otherdir" \in pubKeyDirs

\* ---- C9
\* C9: when gpg fails, the run exits with code 1, the add call is never
\* issued, the wait and the final delete do not take place, and the
\* temporary file is gone.
C9_DecryptFailure ==
    (\E i \in 1..Len(calls) : calls[i].tool = "gpg" /\ ~calls[i].ok) =>
        /\ pc = "FAILED"
        /\ exitCode = 1
        /\ LastCall.tool = "gpg"
        /\ ~Called("add")
        /\ start_time = -1
        /\ waitOutcome = "none"
        /\ temp_file \notin tmpFiles
        /\ ~ENABLED Next

C9_Witness ==
    /\ failedStep = "DECRYPT"
    /\ temp_file # 0
    /\ provisioner_name \in ca0

\* ---- C10
\* C10: with no operator input, the wait loop ends by the timeout, no less
\* than timeout seconds and no more than timeout + 1 seconds after
\* start_time.
C10_TimeoutWindow ==
    (waitOutcome # "none" /\ inputAt = -1) =>
        /\ waitOutcome = "timedOut"
        /\ waitEnd - start_time >= timeout * TicksPerSecond
        /\ waitEnd - start_time <= (timeout + 1) * TicksPerSecond

C10_Witness ==
    /\ waitOutcome = "timedOut"
    /\ inputAt = -1
    /\ timeout >= 1
    /\ waitEnd - start_time > timeout * TicksPerSecond + PollTicks

\* ---- C11
\* C11: when operator input arrives less than timeout seconds after
\* start_time (input buffered before the loop included), the wait loop ends
\* by the keypress, no later than one polling interval after the input
\* arrived or the loop began, whichever is later.
InputOrBegin == IF inputAt > start_time THEN inputAt ELSE start_time

C11_CancelWithinPoll ==
    (/\ waitOutcome # "none"
     /\ inputAt # -1
     /\ inputAt - start_time < timeout * TicksPerSecond) =>
        /\ waitOutcome = "cancelled"
        /\ waitEnd >= InputOrBegin
        /\ waitEnd - InputOrBegin <= PollTicks

C11_Witness ==
    /\ waitOutcome = "cancelled"
    /\ inputAt > start_time + PollTicks
    /\ inputAt - start_time < timeout * TicksPerSecond
    /\ waitEnd > inputAt

\* ---- C12
\* C12: a run in which add succeeded leaves the wait loop and reaches the
\* final delete step, for every timeout and whether or not input arrives.
C12_WaitTerminates ==
    (pc = "WAIT_BEGIN") ~> (pc = "DELETE_FINAL")

C12_Witness ==
    /\ pc = "DELETE_FINAL"
    /\ waitOutcome = "timedOut"
    /\ timeout = MaxTimeout

\* ---- C13
\* C13: the external calls of a run are, in this order, list, remove (if
\* and only if the listing held the provisioner name), gpg, add, and, after
\* the wait, remove; a provisioner registered at the start is removed
\* exactly once before add.
Tools == [ i \in 1..Len(calls) |-> calls[i].tool ]

ListingReported == Contains(provisioner_name, ListingText(ca0))

ExpectedTools ==
    << "list" >> \o (IF ListingReported THEN << "remove" >> ELSE << >>)
                 \o << "gpg", "add", "remove" >>

C13_CallOrder ==
    /\ Len(calls) <= Len(ExpectedTools)
    /\ Tools = SubSeq(ExpectedTools, 1, Len(calls))
    /\ pc = "DONE" => Tools = ExpectedTools
    /\ (Len(calls) > 0 /\ LastCall.tool = "remove" /\ Called("add")) =>
          waitOutcome # "none"
    /\ (provisioner_name \in ca0 /\ Called("add")) =>
          /\ calls[2] = Call("remove", TRUE, "")
          /\ calls[3].tool = "gpg"

C13_Witness ==
    /\ pc = "DONE"
    /\ provisioner_name \in ca0
    /\ Len(calls) = Len(ExpectedTools)

\* ---- C14
\* C14: check_provisioner answers True exactly when the provisioner name
\* is one of the registered names, so that the delete before add is only
\* tried on a registered provisioner.
C14_CheckIsMembership ==
    /\ (Len(calls) > 0 /\ calls[1].ok) =>
          (provisioner_exists <=> provisioner_name \in ca0)
    /\ pc = "DELETE_EXISTING" => provisioner_name \in ca

\* ---- C15
\* C15: the key file arguments of gpg and of the CA's add resolve against
\* the script's directory, the base of the public key path checked at the
\* start, whatever the working directory.
C15_KeyPathsFromScriptDir ==
    \A i \in 1..Len(calls) :
        calls[i].tool \in { "gpg", "add" } => calls[i].dir = ScriptDir

====
